---- MODULE Spec2Model ----
(***************************************************************************)
(* Model of the download-token codec (src/util/__init__.py), the download  *)
(* endpoint (src/main.py) and the agent export pipeline                    *)
(* (src/data/function/agent.py) of the RAG-Framework backend.              *)
(*                                                                         *)
(* Text is modelled as a sequence of byte values (ASCII codes), so that    *)
(* joining on "::", splitting on "::", decimal conversion, hex digests and *)
(* base64 are computed the way the Python code computes them.  A function  *)
(* of the code that computes intermediate values is written as a chain of  *)
(* operators, each intermediate value being an argument of the next.       *)
(***************************************************************************)
EXTENDS Integers, Sequences, FiniteSets, TLC

VARIABLES clock, issued, last, db, deletes, agent, fs, tasks, call, calls, retriever_dir, env_file, zip, mcp, collections, store, requests, upload

codecVars == <<clock, issued, last>>
exportVars == <<db, deletes, agent, fs, tasks, call, calls>>
otherVars == <<retriever_dir, env_file, zip, mcp, collections, store, requests, upload>>
vars == <<clock, issued, last, db, deletes, agent, fs, tasks, call, calls,
         retriever_dir, env_file, zip, mcp, collections, store, requests, upload>>

(***************************************************************************)
(* Bounds of the model.                                                    *)
(***************************************************************************)
MaxLen == 2          \* longest file name supplied by an uploader
MaxTtl == 1          \* largest expires_in (seconds) passed to generate_token
MaxSeconds == 2      \* the clock runs from 0 to MaxSeconds seconds
TicksPerSecond == 2  \* resolution of time.time(): readings per second

MaxDeletes == 2      \* delete requests served while exports run
MaxCalls == 2        \* export calls made for the agent, one after another

MaxClock == MaxSeconds * TicksPerSecond

(***************************************************************************)
(* Text helpers.                                                           *)
(***************************************************************************)
Colon == 58
DEFAULT_TOKEN_SEPARATOR == <<Colon, Colon>>

RECURSIVE StringsOfLen(_, _)
StringsOfLen(chars, n) ==
    IF n = 0 THEN {<<>>}
    ELSE {<<c>> \o s : c \in chars, s \in StringsOfLen(chars, n - 1)}

\* All non-empty strings over chars of length at most n.
Strings(chars, n) == UNION {StringsOfLen(chars, k) : k \in 1..n}

\* sep.join(parts)
RECURSIVE Join(_)
Join(parts) ==
    IF Len(parts) = 0 THEN <<>>
    ELSE IF Len(parts) = 1 THEN parts[1]
    ELSE parts[1] \o DEFAULT_TOKEN_SEPARATOR \o Join(Tail(parts))

Max(S) == CHOOSE x \in S : \A y \in S : y <= x
Min(S) == CHOOSE x \in S : \A y \in S : x <= y

\* The last position before i of s that holds no ':' (0 if there is none).
LastOther(s, i) ==
    IF \A j \in 1..(i - 1) : s[j] = Colon THEN 0
    ELSE Max({j \in 1..(i - 1) : s[j] # Colon})

\* Number of ':' characters that directly precede position i of s.
ColonsBefore(s, i) == (i - 1) - LastOther(s, i)

\* The positions where str.split("::") cuts s: it scans left to right and
\* takes each non-overlapping occurrence of the separator, so inside a run of
\* colons the cuts are at the 1st, 3rd, 5th ... colon of the run.
Cuts(s) ==
    {i \in 1..(Len(s) - 1) :
        s[i] = Colon /\ s[i + 1] = Colon /\ ColonsBefore(s, i) % 2 = 0}

\* The m-th smallest cut.
NthCut(cuts, m) == CHOOSE c \in cuts : Cardinality({d \in cuts : d < c}) = m - 1

SplitAt(s, cuts) ==
    [m \in 1..(Cardinality(cuts) + 1) |->
        SubSeq(s, IF m = 1 THEN 1 ELSE NthCut(cuts, m - 1) + 2,
                  IF m = Cardinality(cuts) + 1 THEN Len(s) ELSE NthCut(cuts, m) - 1)]

\* s.split("::")
Split(s) == SplitAt(s, Cuts(s))

\* str(n) for an integer n.
RECURSIVE Digits(_)
Digits(n) == IF n < 10 THEN <<48 + n>> ELSE Append(Digits(n \div 10), 48 + (n % 10))

IntToStr(n) == IF n < 0 THEN <<45>> \o Digits(0 - n) ELSE Digits(n)

IsDigit(c) == c >= 48 /\ c <= 57

RECURSIVE DigitsValue(_)
DigitsValue(s) ==
    IF Len(s) = 0 THEN 0
    ELSE 10 * DigitsValue(SubSeq(s, 1, Len(s) - 1)) + (s[Len(s)] - 48)

HasSign(s) == Len(s) > 0 /\ s[1] \in {43, 45}

Numeral(s, body) ==
    IF Len(body) = 0 \/ \E i \in 1..Len(body) : ~IsDigit(body[i])
    THEN [ok |-> FALSE, val |-> 0]
    ELSE [ok |-> TRUE,
          val |-> IF s[1] = 45 THEN 0 - DigitsValue(body) ELSE DigitsValue(body)]

\* int(s): a decimal numeral with an optional sign; anything else raises
\* ValueError (ok = FALSE).  The texts of the model hold no blanks or '_'.
StrToInt(s) == Numeral(s, IF HasSign(s) THEN Tail(s) ELSE s)

HexChar(n) == IF n < 10 THEN 48 + n ELSE 87 + n

\* bytes.hex(): two lower-case hex digits per byte.
HexDigest(bytes) ==
    [i \in 1..(2 * Len(bytes)) |->
        HexChar(IF i % 2 = 1 THEN bytes[(i + 1) \div 2] \div 16
                ELSE bytes[i \div 2] % 16)]

\* hmac.new(key, msg, sha256).hexdigest(), as an ideal MAC: a hex text that
\* is a one-to-one function of (key, msg) for keys of equal length.
Hmac(key, msg) == HexDigest(key \o msg)

(***************************************************************************)
(* base64.urlsafe_b64encode / urlsafe_b64decode.                           *)
(***************************************************************************)
Pad == 61

B64Char(v) ==
    IF v < 26 THEN 65 + v
    ELSE IF v < 52 THEN 71 + v
    ELSE IF v < 62 THEN v - 4
    ELSE IF v = 62 THEN 45 ELSE 95

\* Value of a base64 character, 64 for a character outside the alphabet.
\* The url-safe decoder accepts '-' '_' and also the standard '+' '/'.
B64Val(c) ==
    IF c >= 65 /\ c <= 90 THEN c - 65
    ELSE IF c >= 97 /\ c <= 122 THEN c - 71
    ELSE IF c >= 48 /\ c <= 57 THEN c + 4
    ELSE IF c \in {45, 43} THEN 62
    ELSE IF c \in {95, 47} THEN 63
    ELSE 64

\* Byte i of bytes, 0 past the end.
ByteAt(bytes, i) == IF i <= Len(bytes) THEN bytes[i] ELSE 0

\* Character k (0..3) of the quad that encodes b0, b1, b2, the bytes of
\* group g; n is the number of bytes of the whole text.
QuadChar(k, g, n, b0, b1, b2) ==
    IF k = 0 THEN B64Char(b0 \div 4)
    ELSE IF k = 1 THEN B64Char((b0 % 4) * 16 + (b1 \div 16))
    ELSE IF k = 2 THEN (IF 3 * g + 2 > n THEN Pad
                        ELSE B64Char((b1 % 16) * 4 + (b2 \div 64)))
    ELSE (IF 3 * g + 3 > n THEN Pad ELSE B64Char(b2 % 64))

urlsafe_b64encode(bytes) ==
    [j \in 1..(4 * ((Len(bytes) + 2) \div 3)) |->
        QuadChar((j - 1) % 4, (j - 1) \div 4, Len(bytes),
                 ByteAt(bytes, 3 * ((j - 1) \div 4) + 1),
                 ByteAt(bytes, 3 * ((j - 1) \div 4) + 2),
                 ByteAt(bytes, 3 * ((j - 1) \div 4) + 3))]

IsB64Data(c) == B64Val(c) < 64

DataBefore(s, i) == Cardinality({j \in 1..(i - 1) : IsB64Data(s[j])})

LastData(s, i) ==
    IF \A j \in 1..(i - 1) : ~IsB64Data(s[j]) THEN 0
    ELSE Max({j \in 1..(i - 1) : IsB64Data(s[j])})

PadsUpTo(s, i) == Cardinality({j \in (LastData(s, i) + 1)..i : s[j] = Pad})

\* binascii.a2b_base64 in its lenient mode.  The scan skips characters
\* outside the alphabet; a '=' met when the current quad holds q >= 2
\* characters counts as a pad, and the scan stops with success once q plus
\* the pads seen since the last data character reaches 4 (Stops); at the end
\* of the input an incomplete quad is an error.
Stops(s) ==
    {i \in 1..Len(s) : /\ s[i] = Pad
                        /\ DataBefore(s, i) % 4 >= 2
                        /\ (DataBefore(s, i) % 4) + PadsUpTo(s, i) >= 4}

\* The data characters the scan consumes.
ScannedData(s, stops) ==
    SelectSeq(SubSeq(s, 1, IF stops = {} THEN Len(s) ELSE Min(stops)), IsB64Data)

\* Byte r (0..2) of the quad of values v1..v4.
QuadByte(r, v1, v2, v3, v4) ==
    IF r = 0 THEN v1 * 4 + (v2 \div 16)
    ELSE IF r = 1 THEN (v2 % 16) * 16 + (v3 \div 4)
    ELSE (v3 % 4) * 64 + v4

DataVal(data, i) == IF i <= Len(data) THEN B64Val(data[i]) ELSE 0

ByteCount(m) == 3 * (m \div 4) + (IF m % 4 = 2 THEN 1 ELSE IF m % 4 = 3 THEN 2 ELSE 0)

DecodedBytes(data) ==
    [k \in 1..ByteCount(Len(data)) |->
        QuadByte((k - 1) % 3,
                 DataVal(data, 4 * ((k - 1) \div 3) + 1),
                 DataVal(data, 4 * ((k - 1) \div 3) + 2),
                 DataVal(data, 4 * ((k - 1) \div 3) + 3),
                 DataVal(data, 4 * ((k - 1) \div 3) + 4))]

\* bytes.decode("utf-8"): ASCII bytes decode to themselves; the only other
\* byte the tokens of this model decode to is 0xFF, which no UTF-8 text holds.
Utf8Ok(bytes) == \A i \in 1..Len(bytes) : bytes[i] < 128

Decoded(complete, bytes) == [ok |-> complete /\ Utf8Ok(bytes), bytes |-> bytes]

A2B(stops, data) == Decoded(stops # {} \/ Len(data) % 4 = 0, DecodedBytes(data))

\* base64.urlsafe_b64decode(token.encode()).decode(): ok = FALSE when either
\* step raises.
urlsafe_b64decode(s) == A2B(Stops(s), ScannedData(s, Stops(s)))

(***************************************************************************)
(* SecureDownloadGenerator.                                                *)
(***************************************************************************)
ServerKey == <<75>>      \* the secret key the server holds ("K")
OtherKey == <<76>>       \* a key of the same length that is not the server's

NoUser == <<>>           \* user_id = None (or ""): `if user_id:` is false

\* expiry = int(time.time()) + expires_in, for the clock reading now.
Expiry(now, expires_in) == (now \div TicksPerSecond) + expires_in

PayloadParts(data, expiry, nonce, user_id) ==
    <<data.name, data.path, data.mime_type, IntToStr(expiry), nonce>>
        \o (IF user_id # NoUser THEN <<user_id>> ELSE <<>>)

\* token_data: the payload, the separator and the hex signature.
Signed(payload, secret_key) ==
    payload \o DEFAULT_TOKEN_SEPARATOR \o Hmac(secret_key, payload)

\* The text that generate_token encodes.
TokenData(data, expires_in, user_id, secret_key, now, nonce) ==
    Signed(Join(PayloadParts(data, Expiry(now, expires_in), nonce, user_id)), secret_key)

generate_token(data, expires_in, user_id, secret_key, now, nonce) ==
    urlsafe_b64encode(TokenData(data, expires_in, user_id, secret_key, now, nonce))

\* What a call of verify_token produces: a FileInformation ("ok"), the value
\* None ("none"), or a raised exception ("raise" with its class).
Returned(name, path, mime_type) ==
    [kind |-> "ok", error |-> "", name |-> name, path |-> path, mime_type |-> mime_type]
ReturnedNone ==
    [kind |-> "none", error |-> "", name |-> <<>>, path |-> <<>>, mime_type |-> <<>>]
Raised(error) ==
    [kind |-> "raise", error |-> error, name |-> <<>>, path |-> <<>>, mime_type |-> <<>>]

\* The signature comparison without the comparison.
AcceptSignature(parts, signature, payload, secret_key) ==
    Returned(parts[1], parts[2], parts[3])

\* verify_token, lines 85-98: compare the signatures, return the fields.
VerifySignature(parts, signature, payload, secret_key) ==
    IF signature # Hmac(secret_key, payload) THEN ReturnedNone
    ELSE Returned(parts[1], parts[2], parts[3])

\* verify_token, lines 71-83: expiry is int(expiry_str); then the signature
\* and the signed payload are taken by the number of fields.
VerifyExpiry(parts, expiry, secret_key, now) ==
    IF ~expiry.ok THEN Raised("ValueError")
    ELSE IF now > expiry.val * TicksPerSecond THEN ReturnedNone
    ELSE IF Len(parts) = 5 THEN Raised("IndexError")
    ELSE IF Len(parts) = 7
         THEN VerifySignature(parts, parts[7], Join(SubSeq(parts, 1, 6)), secret_key)
         ELSE VerifySignature(parts, parts[6], Join(SubSeq(parts, 1, 5)), secret_key)

\* verify_token, lines 64-69.
VerifyParts(parts, secret_key, now) ==
    IF Len(parts) < 5 THEN ReturnedNone
    ELSE VerifyExpiry(parts, StrToInt(parts[4]), secret_key, now)

\* verify_token, lines 58-64.
VerifyDecoded(decoded, secret_key, now) ==
    IF ~decoded.ok THEN Raised("InvalidArgumentError")
    ELSE VerifyParts(Split(decoded.bytes), secret_key, now)

verify_token(token, secret_key, now) ==
    VerifyDecoded(urlsafe_b64decode(token), secret_key, now)

(***************************************************************************)
(* GET /download and the exception handlers of the application.            *)
(***************************************************************************)
\* Status of the response: FileResponse for a FileInformation; None makes
\* file["path"] raise TypeError, which no handler catches (500); only
\* InvalidArgumentError has a handler (400).
Response(file) ==
    [file |-> file,
     status |-> IF file.kind = "ok" THEN 200
                ELSE IF file.kind = "raise" /\ file.error = "InvalidArgumentError" THEN 400
                ELSE 500]

download(token, now) == Response(verify_token(token, ServerKey, now))

(***************************************************************************)
(* Inputs.                                                                 *)
(***************************************************************************)
\* File names and mime types come from the uploader (UploadFile.filename and
\* content_type); paths are made by the server.
Names == Strings({Colon, 97}, MaxLen)
Paths == {<<112>>}
MimeTypes == {<<109>>, <<57>>}
Users == {NoUser, <<117>>}
Nonces == {<<110>>}
FileInformation == [name : Names, path : Paths, mime_type : MimeTypes]

\* Token strings that are not base64 of a well-formed token:
\* "A" and "YQ" (bad length or padding), "_w==" (byte 0xFF, not UTF-8),
\* "" and "YQ==" (decodes, but to fewer than five fields).
MalformedTokens == {<<65>>, <<89, 81>>, <<95, 119, 61, 61>>, <<>>, <<89, 81, 61, 61>>}

\* The fields of the token text of an issue call, signature last.
Fields(t) == Split(TokenData(t.data, t.expires_in, t.user_id, ServerKey, t.at, t.nonce))

\* Replacement values an attacker tries for a field: another text, another
\* number, the empty text, and the old value followed by two more fields.
TamperValues(old) ==
    {<<120>>, <<55>>, <<>>, old \o <<Colon, Colon, 120, Colon, Colon, 120>>} \ {old}

\* The issued token text with field i replaced by v, encoded again.
Tampered(fields, i, v) == urlsafe_b64encode(Join([fields EXCEPT ![i] = v]))

\* Tokens assembled without the server key: chosen fields, and a signature
\* that is computed under another key, made up, copied from the issued
\* token, or left out.
ForgedData == [name : {<<97>>, <<Colon, Colon>>}, path : {<<112>>, <<113>>}, mime_type : {<<109>>}]
SigKinds == {"otherkey", "madeup", "copied", "missing"}

ForgedText(payload, kind, seen_signature) ==
    IF kind = "missing" THEN payload
    ELSE IF kind = "otherkey" THEN Signed(payload, OtherKey)
    ELSE IF kind = "copied" THEN payload \o DEFAULT_TOKEN_SEPARATOR \o seen_signature
    ELSE payload \o DEFAULT_TOKEN_SEPARATOR \o <<120>>

Forged(data, user_id, kind, seen_signature) ==
    urlsafe_b64encode(
        ForgedText(Join(PayloadParts(data, MaxSeconds + MaxTtl, <<110>>, user_id)),
                   kind, seen_signature))

(***************************************************************************)
(* Agent export: AgentServiceImpl.get_exported_agent_config_file_token and *)
(* _get_agent_config (src/data/function/agent.py), with the configuration  *)
(* getters of the services it fans out to.                                 *)
(*                                                                         *)
(* A coroutine runs from one await to the next without interruption, so a  *)
(* step of a task is the code between two awaits; the database answer an   *)
(* await waits for is read when the task resumes.                          *)
(***************************************************************************)
\* The stored agent documents considered: one that references every kind of
\* entity, one with only the mandatory chat model and prompt, and one with
\* a recognizer and a single retriever.
AgentDocuments ==
    { [llm_id |-> "llm1", prompt_id |-> "prompt1", image_recognizer_id |-> "rec1",
       retriever_ids |-> <<"ret1", "ret2">>, mcp_server_ids |-> <<"mcp1">>,
       tool_ids |-> <<"tool1">>],
      [llm_id |-> "llm1", prompt_id |-> "prompt1", image_recognizer_id |-> "",
       retriever_ids |-> <<>>, mcp_server_ids |-> <<>>, tool_ids |-> <<>>],
      [llm_id |-> "llm1", prompt_id |-> "prompt1", image_recognizer_id |-> "rec1",
       retriever_ids |-> <<"ret2">>, mcp_server_ids |-> <<>>, tool_ids |-> <<>>] }

FullAgent ==
    CHOOSE a \in AgentDocuments : Len(a.mcp_server_ids) > 0

\* The local variable agent of a call that has not read the agent document.
NoAgent ==
    [llm_id |-> "", prompt_id |-> "", image_recognizer_id |-> "",
     retriever_ids |-> <<>>, mcp_server_ids |-> <<>>, tool_ids |-> <<>>]

\* Stored documents the export follows references of.
Recognizers == [rec1 |-> [model_file_id |-> "file1"]]
StoredFiles == [file1 |-> [name |-> "model.pt"]]
Retrievers ==
    [ret1 |-> [name |-> "kb1", embeddings_id |-> "emb1", external_data |-> TRUE],
     ret2 |-> [name |-> "kb2", embeddings_id |-> "emb1", external_data |-> FALSE]]

\* The identifiers under which documents are stored.
Entities == {"agent1", "llm1", "prompt1", "rec1", "file1", "ret1", "ret2", "emb1", "mcp1"}

\* Files of the export directory, as <<directory, name>>.
EnvFile == <<"", ".env">>
ConfigJson == <<"config", "config.json">>
RecognizerFiles(file) == {<<"config/recognizer", file.name>>, <<"config/recognizer", "classes.json">>}
ExternalDataFile(retriever) == <<"config/retriever", retriever.name>>

\* file_info of the exported archive: name, absolute path, "application/zip".
ExportedFile == [name |-> <<97>>, path |-> <<112>>, mime_type |-> <<122>>]
DefaultExpiresIn == 3600
NoToken == <<>>

\* A task that has not finished is waiting for its first or second database
\* answer ("fetch", "fetch2") or, a task that runs an inner TaskGroup, for
\* its children ("wait").
Unfinished == {"fetch", "fetch2", "wait"}

Range(f) == {f[i] : i \in DOMAIN f}

NoTasks ==
    [image_recognizer |-> "none", retrievers |-> "none", mcp |-> "none",
     llm |-> "none", prompt |-> "none",
     retriever |-> <<>>, metadata |-> <<>>, config |-> <<>>]

\* The tasks _get_agent_config creates in its TaskGroup, and those the
\* retriever and MCP tasks create in theirs.
Launch(a) ==
    [image_recognizer |-> IF a.image_recognizer_id # "" THEN "fetch" ELSE "none",
     retrievers |-> IF Len(a.retriever_ids) > 0 THEN "wait" ELSE "none",
     mcp |-> IF Len(a.mcp_server_ids) > 0 THEN "wait" ELSE "none",
     llm |-> "fetch",
     prompt |-> "fetch",
     retriever |-> [i \in 1..Len(a.retriever_ids) |-> "fetch"],
     metadata |-> [i \in 1..Len(a.mcp_server_ids) |-> "fetch"],
     config |-> [i \in 1..Len(a.mcp_server_ids) |-> "fetch"]]

\* The children of the outer TaskGroup.
OuterStatuses(t) == {t.image_recognizer, t.retrievers, t.mcp, t.llm, t.prompt}

\* A TaskGroup that does not wait for its children.
FinishedAtOnce(t) == TRUE

\* The exit of the outer TaskGroup returns once every child has ended.
Finished(t) == OuterStatuses(t) \cap Unfinished = {}

\* A fetch of the call has not ended: a task of the outer group or of an
\* inner group is still waiting.
InFlight(t) ==
    (OuterStatuses(t) \cup Range(t.retriever) \cup Range(t.metadata) \cup Range(t.config))
        \cap Unfinished # {}

\* A TaskGroup that forgets the exceptions of its children.
NeverFailed(t) == FALSE

\* The TaskGroup raises at its exit when a child ended with an exception.
Failed(t) == "failed" \in OuterStatuses(t)

\* get_by_id: the document, or NotFoundError.
FetchResult(id, next) == IF id \in db THEN next ELSE "failed"

\* The call, with id recorded as found missing if the fetch fails.
Noted(id) == IF id \in db THEN call ELSE [call EXCEPT !.missing = @ \cup {id}]

\* The call after the last fetch of retriever task i: the task has
\* completed, or id has been found missing.
RetrieverCompleted(i, id) ==
    IF id \in db THEN [call EXCEPT !.completed = Append(@, i)] ELSE Noted(id)

\* TaskGroup._abort: the children still running are cancelled.
Cancelled(children) ==
    [i \in DOMAIN children |->
        IF children[i] \in Unfinished THEN "cancelled" ELSE children[i]]

\* A task that runs an inner group, when cancelled or left by its children.
Joined(status, children1, children2) ==
    IF status # "wait" THEN status
    ELSE IF "failed" \in Range(children1) \cup Range(children2) THEN "failed"
    ELSE IF "cancelled" \in Range(children1) \cup Range(children2) THEN "cancelled"
    ELSE "done"

Leaf(status) == IF status \in Unfinished THEN "cancelled" ELSE status

\* The outer TaskGroup aborts: every unfinished child is cancelled, and a
\* cancelled child that runs an inner group cancels that group's children.
CancelAll(t) ==
    [image_recognizer |-> Leaf(t.image_recognizer),
     llm |-> Leaf(t.llm),
     prompt |-> Leaf(t.prompt),
     retrievers |-> Joined(t.retrievers, Cancelled(t.retriever), <<>>),
     mcp |-> Joined(t.mcp, Cancelled(t.metadata), Cancelled(t.config)),
     retriever |-> Cancelled(t.retriever),
     metadata |-> Cancelled(t.metadata),
     config |-> Cancelled(t.config)]

\* The entities an agent document refers to by identifier.
References(a) ==
    {a.llm_id, a.prompt_id} \cup Range(a.retriever_ids) \cup Range(a.mcp_server_ids)
        \cup (IF a.image_recognizer_id # "" THEN {a.image_recognizer_id} ELSE {})

\* No export call has been made.
IdleCall ==
    [pc |-> "idle", count |-> 0, missing |-> {}, error |-> "",
     composite |-> FALSE, config_json |-> FALSE, archived |-> FALSE, token |-> NoToken,
     agent |-> NoAgent, absent |-> {}, completed |-> <<>>, config |-> <<>>,
     earlier |-> NoToken]

\* A call that has read the agent document a.  Beside the state of the call
\* the record keeps what is needed to state properties of it: the
\* references that were missing when it started, the retriever tasks in
\* the order in which they completed, and the token that the latest earlier
\* call returned to its client (NoToken when none has returned one).
NewCall(pc, error, a) ==
    [pc |-> pc, count |-> call.count + 1, missing |-> {}, error |-> error,
     composite |-> FALSE, config_json |-> FALSE, archived |-> FALSE, token |-> NoToken,
     agent |-> a, absent |-> References(a) \ db, completed |-> <<>>, config |-> <<>>,
     earlier |-> IF call.token # NoToken THEN call.token ELSE call.earlier]

\* An export that zips the directory and leaves it in place.
ExportedInPlace(f) ==
    [workdir |-> TRUE, files |-> f.files \cup {EnvFile, ConfigJson},
     archive |-> <<f.files \cup {EnvFile, ConfigJson}>>]

\* Lines 267-272: .env and config.json are written, the directory is zipped
\* (one entry per file found in it) and removed.
Exported(f) ==
    [workdir |-> FALSE, files |-> {}, archive |-> <<f.files \cup {EnvFile, ConfigJson}>>]

\* The stored MCP servers.
McpServers ==
    [mcp1 |-> [name |-> "srv1"], mcp2 |-> [name |-> "srv1"], mcp3 |-> [name |-> "srv2"]]

\* A list of retriever results collected in the order of completion.
RetrieverResultsAsCompleted(a, completed) ==
    [k \in 1..Len(completed) |-> a.retriever_ids[completed[k]]]

\* get_retrievers, line 323: the results of the retriever tasks, in the
\* order in which the tasks were created.  A resolved configuration is
\* written as the identifier of the document it was resolved from.
RetrieverResults(a, completed) ==
    [i \in 1..Len(a.retriever_ids) |-> a.retriever_ids[i]]

\* get_mcp_configuration, lines 336-341: servers[metadata.name] = config,
\* for each server in turn.
McpConnections(ids) ==
    [n \in {McpServers[ids[i]].name : i \in DOMAIN ids} |->
        ids[Max({i \in DOMAIN ids : McpServers[ids[i]].name = n})]]

\* Lines 347-350: the value of each task that was created is put under its
\* key; no task is created for the tools.
Composite(a, completed) ==
    [llm |-> a.llm_id, prompt |-> a.prompt_id, image_recognizer |-> a.image_recognizer_id,
     retrievers |-> RetrieverResults(a, completed),
     mcp |-> McpConnections(a.mcp_server_ids),
     tools |-> <<>>]

\* The entries of a complete archive of the agent document a: .env,
\* config.json, the files of its recognizer and the external documents of
\* its retrievers.
ExpectedEntries(a) ==
    {EnvFile, ConfigJson}
        \cup (IF a.image_recognizer_id # ""
              THEN RecognizerFiles(StoredFiles[Recognizers[a.image_recognizer_id].model_file_id])
              ELSE {})
        \cup {ExternalDataFile(Retrievers[id]) :
                 id \in {r \in Range(a.retriever_ids) : Retrievers[r].external_data}}

\* The requests that export the same agent at the same time.
Callers == {"A", "B"}

\* A request that has not started: its tasks, the files it has written, the
\* entries of the archive it has built, and its token.
IdleCaller ==
    [pc |-> "idle", tasks |-> NoTasks, wrote |-> {}, entries |-> {}, token |-> NoToken,
     error |-> ""]

NoCalls == [c \in Callers |-> IdleCaller]

(***************************************************************************)
(* State machine of the token codec and the download endpoint.             *)
(*   clock   the reading of time.time(), in ticks                          *)
(*   issued  the issue call under observation (at most one), with the      *)
(*           token it returned                                             *)
(*   last    the download call answered at the current clock reading       *)
(***************************************************************************)
Init ==
    /\ clock = 0
    /\ issued = <<>>
    /\ last = <<>>
    /\ db = Entities
    /\ deletes = 0
    /\ agent = FullAgent
    /\ fs = [workdir |-> FALSE, files |-> {}, archive |-> <<>>]
    /\ tasks = NoTasks
    /\ call = IdleCall
    /\ calls = NoCalls
    /\ retriever_dir = <<>>
    /\ env_file = <<>>
    /\ zip = <<>>
    /\ mcp = <<>>
    /\ collections = <<>>
    /\ store = <<>>
    /\ requests = <<>>
    /\ upload = <<>>

Tick ==
    /\ clock < MaxClock
    /\ clock' = clock + 1
    /\ last' = <<>>
    /\ UNCHANGED <<issued, exportVars, otherVars>>

Issue ==
    /\ issued = <<>>
    /\ \E data \in FileInformation, expires_in \in 0..MaxTtl, user_id \in Users, nonce \in Nonces :
          issued' = <<[data |-> data, expires_in |-> expires_in, user_id |-> user_id,
                       nonce |-> nonce, at |-> clock,
                       token |-> generate_token(data, expires_in, user_id, ServerKey, clock, nonce)]>>
    /\ UNCHANGED <<clock, last, exportVars, otherVars>>

Answer(src, how, token, r) ==
    [src |-> src, how |-> how, token |-> token, file |-> r.file, status |-> r.status]

\* One download call is observed per clock reading; src and how record
\* where the presented token came from.
Redeem(src, how, token) ==
    /\ last = <<>>
    /\ last' = <<Answer(src, how, token, download(token, clock))>>
    /\ UNCHANGED <<clock, issued, exportVars, otherVars>>

DownloadIssued ==
    /\ issued # <<>>
    /\ Redeem("issued", "", issued[1].token)

TamperAny(fields) ==
    \E i \in 1..Len(fields) :
       \E v \in TamperValues(fields[i]) :
          Redeem("tampered", "", Tampered(fields, i, v))

DownloadTampered ==
    /\ issued # <<>>
    /\ last = <<>>
    /\ TamperAny(Fields(issued[1]))

\* A token equal to the issued one is a replay, not a forgery.
RedeemForged(kind, token) ==
    /\ token # issued[1].token
    /\ Redeem("forged", kind, token)

ForgeAny(fields) ==
    \E data \in ForgedData, user_id \in Users, kind \in SigKinds :
       RedeemForged(kind, Forged(data, user_id, kind, fields[Len(fields)]))

DownloadForged ==
    /\ issued # <<>>
    /\ last = <<>>
    /\ ForgeAny(Fields(issued[1]))

DownloadMalformed ==
    \E token \in MalformedTokens : Redeem("malformed", "", token)

Next ==
    \/ Tick
    \/ Issue
    \/ DownloadIssued
    \/ DownloadTampered
    \/ DownloadForged
    \/ DownloadMalformed

Spec == Init /\ [][Next]_vars

(***************************************************************************)
(* Properties of the token codec and of the download endpoint.             *)
(***************************************************************************)
\* The clock reading from which the issued token is expired: verify rejects
\* it when time.time() > expiry.
ExpiryTicks(t) == Expiry(t.at, t.expires_in) * TicksPerSecond

IssuedInformation(t) == Returned(t.data.name, t.data.path, t.data.mime_type)

VerifiedIssued == last # <<>> /\ last[1].src = "issued"

\* C1: round trip -- verify(issue(info)), for ttl > 0 and before expiry,
\* returns the name, path and mime type that were issued.
RoundTrip ==
    (VerifiedIssued /\ issued[1].expires_in > 0 /\ clock <= ExpiryTicks(issued[1]))
        => last[1].file = IssuedInformation(issued[1])

\* C2: whatever token verify accepts (every accepted token carries a
\* signature made by the issue call), the FileInformation it returns is the
\* one that was passed to that issue call.
AcceptedYieldsIssuedInformation ==
    (last # <<>> /\ last[1].file.kind = "ok")
        => last[1].file = IssuedInformation(issued[1])

IssuedParts(t) == PayloadParts(t.data, Expiry(t.at, t.expires_in), t.nonce, t.user_id)

SplitsIntoJoined(t, parts) ==
    /\ \A i \in 1..Len(parts) : Cuts(parts[i]) = {}
    /\ Fields(t) = Append(parts, Hmac(ServerKey, Join(parts)))

\* C3: the separator never occurs inside a field of an issued payload: the
\* token text of every issue call splits into exactly the fields that were
\* joined (followed by the signature).
SeparatorNeverInsideField ==
    issued # <<>> => SplitsIntoJoined(issued[1], IssuedParts(issued[1]))

\* C4: tamper detection -- a token with one field changed makes verify fail
\* with the invalid-token error (InvalidArgumentError).
TamperDetected ==
    (last # <<>> /\ last[1].src = "tampered")
        => last[1].file = Raised("InvalidArgumentError")

\* C5: verify raises the invalid-token error, and returns nothing, for a
\* token that cannot be decoded, for a token whose signature does not match,
\* and for an expired token.
VerifyFailsWithInvalidToken ==
    (/\ last # <<>>
     /\ \/ last[1].src = "malformed"
        \/ last[1].src = "forged"
        \/ last[1].src = "issued" /\ clock > ExpiryTicks(issued[1]))
        => last[1].file = Raised("InvalidArgumentError")

\* C6: redemption fails uniformly -- every download that is refused (bad
\* encoding, bad signature, expired) is answered with status 400.
RedemptionFailsUniformly ==
    (last # <<>> /\ last[1].file.kind # "ok") => last[1].status = 400

\* C7: an untampered token is accepted at every clock reading up to its
\* expiry and rejected at every reading after it.
AcceptedUntilExpiry ==
    VerifiedIssued =>
        IF clock <= ExpiryTicks(issued[1]) THEN last[1].file.kind = "ok"
        ELSE last[1].file.kind # "ok"

\* C8: a token issued with expires_in = 0 at reading t is rejected by every
\* verify made once the clock has advanced one second past t.
ZeroTtlRejected ==
    (VerifiedIssued /\ issued[1].expires_in = 0 /\ clock >= issued[1].at + TicksPerSecond)
        => last[1].file.kind # "ok"

\* C9: forgery needs the key -- a token assembled without the server key
\* (signed under another key, with a made-up or missing signature, or with a
\* signature copied from a token issued for other data) is never accepted.
ForgeryRequiresKey ==
    (last # <<>> /\ last[1].src = "forged") => last[1].file.kind # "ok"

\* A well-formed, unexpired token signed under another key reached the
\* signature comparison and was turned down there.
ForgedUnderOtherKeyRejected ==
    /\ last # <<>>
    /\ last[1].src = "forged"
    /\ last[1].how = "otherkey"
    /\ last[1].file = ReturnedNone

(***************************************************************************)
(* State machine of the export.                                            *)
(*   db       identifiers of the stored documents                          *)
(*   deletes  number of delete requests served                             *)
(*   agent    the stored agent document                                    *)
(*   fs       the export directory of the agent (whether it exists, the    *)
(*            files in it) and the archive next to it (<<>> when absent,   *)
(*            else <<its entries>>)                                        *)
(*   tasks    status of each task of the current export call               *)
(*   call     the current export call: where it is, what its fetches found *)
(*            missing, and what it has produced so far                     *)
(***************************************************************************)
InitExport ==
    /\ clock = 0
    /\ issued = <<>>
    /\ last = <<>>
    /\ db = Entities
    /\ deletes = 0
    /\ agent \in AgentDocuments
    /\ fs = [workdir |-> FALSE, files |-> {}, archive |-> <<>>]
    /\ tasks = NoTasks
    /\ call = IdleCall
    /\ calls = NoCalls
    /\ retriever_dir = <<>>
    /\ env_file = <<>>
    /\ zip = <<>>
    /\ mcp = <<>>
    /\ collections = <<>>
    /\ store = <<>>
    /\ requests = <<>>
    /\ upload = <<>>

\* A delete endpoint removes a document; none but the recognizer's looks for
\* agents that reference it, and the recognizer's looks before it deletes.
Delete ==
    /\ deletes < MaxDeletes
    /\ \E id \in db : db' = db \ {id}
    /\ deletes' = deletes + 1
    /\ UNCHANGED <<agent, fs, tasks, call, codecVars, calls, otherVars>>

\* update_model_by_id: the request body names a recognizer and at least one
\* retriever (BaseAgent); the stored agent document is replaced once every
\* entity the new document names has been found.
UpdateAgent ==
    /\ "agent1" \in db
    /\ \E a \in AgentDocuments :
          /\ a # agent
          /\ a.image_recognizer_id # ""
          /\ Len(a.retriever_ids) > 0
          /\ References(a) \subseteq db
          /\ agent' = a
    /\ UNCHANGED <<db, deletes, fs, tasks, call, codecVars, calls, otherVars>>

\* Lines 250-263 and 292-345: the agent is fetched, the export directory is
\* made, the previous archive is unlinked and the tasks are created.
StartExport ==
    /\ call.pc # "assemble"
    /\ call.count < MaxCalls
    /\ IF "agent1" \in db
       THEN /\ fs' = [fs EXCEPT !.workdir = TRUE, !.archive = <<>>]
            /\ tasks' = Launch(agent)
            /\ call' = NewCall("assemble", "", agent)
       ELSE /\ call' = NewCall("raised", "NotFoundError", NoAgent)
            /\ tasks' = NoTasks
            /\ UNCHANGED fs
    /\ UNCHANGED <<db, deletes, agent, codecVars, calls, otherVars>>

Assembling == call.pc = "assemble"

ChatModelStep ==
    /\ Assembling
    /\ tasks.llm = "fetch"
    /\ tasks' = [tasks EXCEPT !.llm = FetchResult(call.agent.llm_id, "done")]
    /\ call' = Noted(call.agent.llm_id)
    /\ UNCHANGED <<db, deletes, agent, fs, codecVars, calls, otherVars>>

PromptStep ==
    /\ Assembling
    /\ tasks.prompt = "fetch"
    /\ tasks' = [tasks EXCEPT !.prompt = FetchResult(call.agent.prompt_id, "done")]
    /\ call' = Noted(call.agent.prompt_id)
    /\ UNCHANGED <<db, deletes, agent, fs, codecVars, calls, otherVars>>

RecognizerStep ==
    /\ Assembling
    /\ tasks.image_recognizer = "fetch"
    /\ tasks' = [tasks EXCEPT !.image_recognizer = FetchResult(call.agent.image_recognizer_id, "fetch2")]
    /\ call' = Noted(call.agent.image_recognizer_id)
    /\ UNCHANGED <<db, deletes, agent, fs, codecVars, calls, otherVars>>

\* The model file is fetched; the model and classes.json are written.
RecognizerFileFetched(file_id) ==
    /\ tasks' = [tasks EXCEPT !.image_recognizer = FetchResult(file_id, "done")]
    /\ call' = Noted(file_id)
    /\ fs' = IF file_id \in db
             THEN [fs EXCEPT !.files = @ \cup RecognizerFiles(StoredFiles[file_id])]
             ELSE fs

RecognizerFileStep ==
    /\ Assembling
    /\ tasks.image_recognizer = "fetch2"
    /\ RecognizerFileFetched(Recognizers[call.agent.image_recognizer_id].model_file_id)
    /\ UNCHANGED <<db, deletes, agent, codecVars, calls, otherVars>>

RetrieverStep ==
    /\ Assembling
    /\ \E i \in DOMAIN tasks.retriever :
          /\ tasks.retriever[i] = "fetch"
          /\ tasks' = [tasks EXCEPT !.retriever[i] = FetchResult(call.agent.retriever_ids[i], "fetch2")]
          /\ call' = Noted(call.agent.retriever_ids[i])
    /\ UNCHANGED <<db, deletes, agent, fs, codecVars, calls, otherVars>>

\* The embeddings model of the retriever is fetched; the external documents
\* of the retriever, if it has any, are written.
EmbeddingsFetched(i, retriever) ==
    /\ tasks' = [tasks EXCEPT !.retriever[i] = FetchResult(retriever.embeddings_id, "done")]
    /\ call' = RetrieverCompleted(i, retriever.embeddings_id)
    /\ fs' = IF retriever.embeddings_id \in db /\ retriever.external_data
             THEN [fs EXCEPT !.files = @ \cup {ExternalDataFile(retriever)}]
             ELSE fs

RetrieverEmbeddingsStep ==
    /\ Assembling
    /\ \E i \in DOMAIN tasks.retriever :
          /\ tasks.retriever[i] = "fetch2"
          /\ EmbeddingsFetched(i, Retrievers[call.agent.retriever_ids[i]])
    /\ UNCHANGED <<db, deletes, agent, codecVars, calls, otherVars>>

McpMetadataStep ==
    /\ Assembling
    /\ \E i \in DOMAIN tasks.metadata :
          /\ tasks.metadata[i] = "fetch"
          /\ tasks' = [tasks EXCEPT !.metadata[i] = FetchResult(call.agent.mcp_server_ids[i], "done")]
          /\ call' = Noted(call.agent.mcp_server_ids[i])
    /\ UNCHANGED <<db, deletes, agent, fs, codecVars, calls, otherVars>>

McpConfigStep ==
    /\ Assembling
    /\ \E i \in DOMAIN tasks.config :
          /\ tasks.config[i] = "fetch"
          /\ tasks' = [tasks EXCEPT !.config[i] = FetchResult(call.agent.mcp_server_ids[i], "done")]
          /\ call' = Noted(call.agent.mcp_server_ids[i])
    /\ UNCHANGED <<db, deletes, agent, fs, codecVars, calls, otherVars>>

\* The inner group of get_retrievers aborts after a child has failed.
AbortRetrievers ==
    /\ Assembling
    /\ tasks.retrievers = "wait"
    /\ "failed" \in Range(tasks.retriever)
    /\ Range(tasks.retriever) \cap Unfinished # {}
    /\ tasks' = [tasks EXCEPT !.retriever = Cancelled(@)]
    /\ UNCHANGED <<db, deletes, agent, fs, call, codecVars, calls, otherVars>>

\* get_retrievers leaves its group: with the list of results, or with the
\* ExceptionGroup of the group.
JoinRetrievers ==
    /\ Assembling
    /\ tasks.retrievers = "wait"
    /\ Range(tasks.retriever) \cap Unfinished = {}
    /\ tasks' = [tasks EXCEPT !.retrievers = Joined(@, tasks.retriever, <<>>)]
    /\ UNCHANGED <<db, deletes, agent, fs, call, codecVars, calls, otherVars>>

AbortMcp ==
    /\ Assembling
    /\ tasks.mcp = "wait"
    /\ "failed" \in Range(tasks.metadata) \cup Range(tasks.config)
    /\ (Range(tasks.metadata) \cup Range(tasks.config)) \cap Unfinished # {}
    /\ tasks' = [tasks EXCEPT !.metadata = Cancelled(@), !.config = Cancelled(@)]
    /\ UNCHANGED <<db, deletes, agent, fs, call, codecVars, calls, otherVars>>

JoinMcp ==
    /\ Assembling
    /\ tasks.mcp = "wait"
    /\ (Range(tasks.metadata) \cup Range(tasks.config)) \cap Unfinished = {}
    /\ tasks' = [tasks EXCEPT !.mcp = Joined(@, tasks.metadata, tasks.config)]
    /\ UNCHANGED <<db, deletes, agent, fs, call, codecVars, calls, otherVars>>

\* The outer group aborts after one of its children has failed.
AbortOuter ==
    /\ Assembling
    /\ "failed" \in OuterStatuses(tasks)
    /\ ~Finished(tasks)
    /\ tasks' = CancelAll(tasks)
    /\ UNCHANGED <<db, deletes, agent, fs, call, codecVars, calls, otherVars>>

\* The outer group raises its ExceptionGroup out of _get_agent_config and
\* out of the export call.
RaiseAggregated ==
    /\ Assembling
    /\ Finished(tasks)
    /\ Failed(tasks)
    /\ call' = [call EXCEPT !.pc = "raised", !.error = "ExceptionGroup"]
    /\ UNCHANGED <<db, deletes, agent, fs, tasks, codecVars, calls, otherVars>>

\* Lines 347-350 and 267-274, which hold no await: the composite is built,
\* .env and config.json are written, the directory is zipped and removed,
\* and the token is made.
CompleteExport ==
    /\ Assembling
    /\ Finished(tasks)
    /\ ~Failed(tasks)
    /\ fs' = Exported(fs)
    /\ call' = [call EXCEPT !.pc = "returned", !.composite = TRUE, !.config_json = TRUE,
                           !.archived = TRUE,
                           !.config = <<Composite(call.agent, call.completed)>>,
                           !.token = generate_token(ExportedFile, DefaultExpiresIn, NoUser,
                                                    ServerKey, clock, <<110>>)]
    /\ UNCHANGED <<db, deletes, agent, tasks, codecVars, calls, otherVars>>

NextExport ==
    \/ Delete
    \/ UpdateAgent
    \/ StartExport
    \/ ChatModelStep
    \/ PromptStep
    \/ RecognizerStep
    \/ RecognizerFileStep
    \/ RetrieverStep
    \/ RetrieverEmbeddingsStep
    \/ McpMetadataStep
    \/ McpConfigStep
    \/ AbortRetrievers
    \/ JoinRetrievers
    \/ AbortMcp
    \/ JoinMcp
    \/ AbortOuter
    \/ RaiseAggregated
    \/ CompleteExport

SpecExport == InitExport /\ [][NextExport]_vars

(***************************************************************************)
(* Properties of the export.                                               *)
(***************************************************************************)
\* C10: aggregation atomicity -- once a fetch of the current export call has
\* found a referenced entity missing, the call gets no composite
\* configuration, writes no config.json, builds no archive (and none is left
\* on disk) and returns no token.
AggregationAtomicity ==
    call.missing # {} =>
        /\ ~call.composite
        /\ ~call.config_json
        /\ ~call.archived
        /\ ConfigJson \notin fs.files
        /\ fs.archive = <<>>
        /\ call.token = NoToken
        /\ call.pc # "returned"

\* An export has raised because a retriever was missing, after the
\* recognizer task had already written its files into the export directory.
ExportRaisedAfterPartialWork ==
    /\ call.pc = "raised"
    /\ "ret2" \in call.missing
    /\ tasks.image_recognizer = "done"
    /\ fs.files # {}

\* The exception handlers of the application: the status of the response to
\* a request whose handler raised error.  An exception class without a
\* handler is answered by the server's internal-error response.
HandlerStatus(error) ==
    IF error = "NotFoundError" THEN 404
    ELSE IF error = "InvalidArgumentError" THEN 400
    ELSE IF error = "NotAcceptableError" THEN 406
    ELSE 500

\* C11: when fetches of the export fail with not-found, the export call
\* raises one not-found error, and the HTTP layer answers it with 404.
AggregatedNotFound ==
    (call.pc = "raised" /\ call.missing # {})
        => (call.error = "NotFoundError" /\ HandlerStatus(call.error) = 404)

\* C12: when several references of the agent are missing, the error the
\* export raises lists every one of them: each reference that was missing
\* when the call started was found missing by a fetch of the call.
AggregatedErrorListsEveryMissing ==
    (call.pc = "raised" /\ call.missing # {}) => call.absent \subseteq call.missing

\* C13: an export that fails during aggregation leaves no working directory
\* and no partial artifact of the agent on disk.
FailedExportLeavesNothing ==
    (call.pc = "raised" /\ call.missing # {}) => (~fs.workdir /\ fs.files = {})

\* C29: every issued, unexpired download token of an agent export refers to
\* an archive that exists on disk -- once an export call has ended, returned
\* or raised, each token that this call or an earlier one returned and that
\* verify_token still accepts names an archive path at which the archive is.
ValidTokensReferToArchive ==
    call.pc \in {"returned", "raised"} =>
        \A token \in {call.token, call.earlier} \ {NoToken} :
            verify_token(token, ServerKey, clock)
                    = Returned(ExportedFile.name, ExportedFile.path, ExportedFile.mime_type)
                => fs.archive # <<>>

(***************************************************************************)
(* Two requests that export the same agent at the same time.  Both run on  *)
(* one event loop, each from one await to its next; every document the     *)
(* agent refers to is stored, so that a fetch fails for no other reason     *)
(* than the other request.  The requests share the export directory and    *)
(* the archive path, both made from the agent's identifier.                *)
(*   calls   for each request: where it is, its tasks, the files it has    *)
(*           written, the entries of the archive it has built, its token   *)
(***************************************************************************)
InitConcurrent ==
    /\ clock = 0
    /\ issued = <<>>
    /\ last = <<>>
    /\ db = Entities
    /\ deletes = 0
    /\ agent = FullAgent
    /\ fs = [workdir |-> FALSE, files |-> {}, archive |-> <<>>]
    /\ tasks = NoTasks
    /\ call = IdleCall
    /\ calls = NoCalls
    /\ retriever_dir = <<>>
    /\ env_file = <<>>
    /\ zip = <<>>
    /\ mcp = <<>>
    /\ collections = <<>>
    /\ store = <<>>
    /\ requests = <<>>
    /\ upload = <<>>

\* The task records that one step of a fetch leads to, when the document
\* fetched is stored and the step writes no file: a first fetch completes,
\* or a task that ran an inner group collects the results of the group.
Advanced(t) ==
    (IF t.llm = "fetch" THEN {[t EXCEPT !.llm = "done"]} ELSE {})
    \cup (IF t.prompt = "fetch" THEN {[t EXCEPT !.prompt = "done"]} ELSE {})
    \cup (IF t.image_recognizer = "fetch"
          THEN {[t EXCEPT !.image_recognizer = "fetch2"]} ELSE {})
    \cup {[t EXCEPT !.retriever[i] = "fetch2"] :
             i \in {j \in DOMAIN t.retriever : t.retriever[j] = "fetch"}}
    \cup {[t EXCEPT !.metadata[i] = "done"] :
             i \in {j \in DOMAIN t.metadata : t.metadata[j] = "fetch"}}
    \cup {[t EXCEPT !.config[i] = "done"] :
             i \in {j \in DOMAIN t.config : t.config[j] = "fetch"}}
    \cup (IF t.retrievers = "wait" /\ Range(t.retriever) \cap Unfinished = {}
          THEN {[t EXCEPT !.retrievers = Joined(@, t.retriever, <<>>)]} ELSE {})
    \cup (IF t.mcp = "wait" /\ (Range(t.metadata) \cup Range(t.config)) \cap Unfinished = {}
          THEN {[t EXCEPT !.mcp = Joined(@, t.metadata, t.config)]} ELSE {})

ConcurrentFrame == UNCHANGED <<db, deletes, agent, tasks, call, codecVars, otherVars>>

\* Lines 250-263 and 292-345 of the request c.
ConcurrentStart(c) ==
    /\ calls[c].pc = "idle"
    /\ fs' = [fs EXCEPT !.workdir = TRUE, !.archive = <<>>]
    /\ calls' = [calls EXCEPT ![c].pc = "assemble", ![c].tasks = Launch(agent)]
    /\ ConcurrentFrame

ConcurrentFetch(c) ==
    /\ calls[c].pc = "assemble"
    /\ \E t \in Advanced(calls[c].tasks) : calls' = [calls EXCEPT ![c].tasks = t]
    /\ UNCHANGED fs
    /\ ConcurrentFrame

\* recognizer.py, lines 204-216: export_dir.mkdir(exist_ok=True) finds the
\* parent directory or raises FileNotFoundError; then the files are written.
ConcurrentRecognizerWrite(c) ==
    /\ calls[c].pc = "assemble"
    /\ calls[c].tasks.image_recognizer = "fetch2"
    /\ IF fs.workdir
       THEN /\ fs' = [fs EXCEPT !.files = @ \cup RecognizerFiles(StoredFiles["file1"])]
            /\ calls' = [calls EXCEPT ![c].tasks.image_recognizer = "done",
                                      ![c].wrote = @ \cup RecognizerFiles(StoredFiles["file1"])]
       ELSE /\ calls' = [calls EXCEPT ![c].tasks.image_recognizer = "failed"]
            /\ UNCHANGED fs
    /\ ConcurrentFrame

\* retriever.py, lines 192-209: export_dir.mkdir(parents=True, exist_ok=True)
\* makes the directories that are not there; then the file is written.
RetrieverWritten(c, i, retriever) ==
    IF retriever.external_data
    THEN /\ fs' = [fs EXCEPT !.workdir = TRUE, !.files = @ \cup {ExternalDataFile(retriever)}]
         /\ calls' = [calls EXCEPT ![c].tasks.retriever[i] = "done",
                                   ![c].wrote = @ \cup {ExternalDataFile(retriever)}]
    ELSE /\ calls' = [calls EXCEPT ![c].tasks.retriever[i] = "done"]
         /\ UNCHANGED fs

ConcurrentRetrieverWrite(c) ==
    /\ calls[c].pc = "assemble"
    /\ \E i \in DOMAIN calls[c].tasks.retriever :
          /\ calls[c].tasks.retriever[i] = "fetch2"
          /\ RetrieverWritten(c, i, Retrievers[agent.retriever_ids[i]])
    /\ ConcurrentFrame

ConcurrentAbort(c) ==
    /\ calls[c].pc = "assemble"
    /\ Failed(calls[c].tasks)
    /\ ~Finished(calls[c].tasks)
    /\ calls' = [calls EXCEPT ![c].tasks = CancelAll(@)]
    /\ UNCHANGED fs
    /\ ConcurrentFrame

ConcurrentRaise(c) ==
    /\ calls[c].pc = "assemble"
    /\ Finished(calls[c].tasks)
    /\ Failed(calls[c].tasks)
    /\ calls' = [calls EXCEPT ![c].pc = "raised", ![c].error = "ExceptionGroup"]
    /\ UNCHANGED fs
    /\ ConcurrentFrame

\* Lines 267-274 of the request c: writing .env raises FileNotFoundError
\* when the export directory is not there.
ConcurrentComplete(c) ==
    /\ calls[c].pc = "assemble"
    /\ Finished(calls[c].tasks)
    /\ ~Failed(calls[c].tasks)
    /\ IF fs.workdir
       THEN /\ fs' = Exported(fs)
            /\ calls' = [calls EXCEPT ![c].pc = "returned",
                                      ![c].entries = fs.files \cup {EnvFile, ConfigJson},
                                      ![c].token = generate_token(ExportedFile, DefaultExpiresIn,
                                                                  NoUser, ServerKey, clock, <<110>>)]
       ELSE /\ calls' = [calls EXCEPT ![c].pc = "raised", ![c].error = "FileNotFoundError"]
            /\ UNCHANGED fs
    /\ ConcurrentFrame

NextConcurrent ==
    \E c \in Callers :
       \/ ConcurrentStart(c)
       \/ ConcurrentFetch(c)
       \/ ConcurrentRecognizerWrite(c)
       \/ ConcurrentRetrieverWrite(c)
       \/ ConcurrentAbort(c)
       \/ ConcurrentRaise(c)
       \/ ConcurrentComplete(c)

SpecConcurrent == InitConcurrent /\ [][NextConcurrent]_vars

\* C14: two concurrent exports of the same agent do not interleave their
\* writes: the files a request has written stay in the export directory
\* while the request is running, and a request that returns a token has
\* built a complete archive.
ExportsDoNotInterleave ==
    \A c \in Callers :
       /\ calls[c].pc = "assemble" => calls[c].wrote \subseteq fs.files
       /\ calls[c].pc = "returned" => calls[c].entries = ExpectedEntries(agent)

\* C15: archive completeness -- after an export has succeeded, whatever
\* earlier exports left on disk, the archive holds exactly config.json,
\* .env and the files of the entities the exported agent refers to.
ArchiveComplete ==
    call.pc = "returned"
        => (fs.archive # <<>> /\ fs.archive[1] = ExpectedEntries(call.agent))

CleanAfterTwoExports ==
    (call.count >= 2 /\ call.pc \in {"returned", "raised"})
        => /\ ~fs.workdir
           /\ fs.files = {}
           /\ fs.archive # <<>> => {EnvFile, ConfigJson} \subseteq fs.archive[1]

\* The composite c holds what the agent document a refers to, and no more.
ReflectsReferences(c, a) ==
    /\ c.llm = a.llm_id
    /\ c.prompt = a.prompt_id
    /\ c.image_recognizer = a.image_recognizer_id
    /\ Len(c.retrievers) = Len(a.retriever_ids)
    /\ Range(c.retrievers) = Range(a.retriever_ids)
    /\ Cardinality(DOMAIN c.mcp) = Len(a.mcp_server_ids)
    /\ Range(c.mcp) = Range(a.mcp_server_ids)
    /\ c.tools = a.tool_ids

\* C18: the composite configuration reflects exactly the references of the
\* agent: its chat model, prompt and recognizer, one retriever configuration
\* per retriever identifier, one connection per MCP server identifier and
\* one tool configuration per tool identifier.
CompositeReflectsReferences ==
    call.pc = "returned" => ReflectsReferences(call.config[1], call.agent)

\* C19: the retriever configurations of the composite are in the order of
\* the agent's retriever identifiers, in whatever order the retriever
\* fetches completed.
RetrieverOrderPreserved ==
    call.pc = "returned" => call.config[1].retrievers = call.agent.retriever_ids

\* An export has returned whose second retriever fetch completed before
\* its first.
ReturnedAfterReverseCompletion ==
    /\ call.pc = "returned"
    /\ call.completed = <<2, 1>>

\* C20: no output of the export is produced while a fetch of the call is
\* in flight: no composite, no .env, no config.json, no archive, no token.
NoOutputWhileFetching ==
    InFlight(tasks) =>
        /\ ~call.composite
        /\ call.config = <<>>
        /\ ~call.config_json
        /\ ~call.archived
        /\ call.token = NoToken
        /\ EnvFile \notin fs.files
        /\ ConfigJson \notin fs.files
        /\ fs.archive = <<>>

\* The export of an agent with a recognizer, retrievers and an MCP server
\* has produced its outputs, every one of its fetches having ended.
OutputsAfterAllFetches ==
    /\ call.pc = "returned"
    /\ call.composite
    /\ tasks.image_recognizer = "done"
    /\ tasks.retrievers = "done"
    /\ tasks.mcp = "done"
    /\ ~InFlight(tasks)

(***************************************************************************)
(* The files the retriever fetches of one export write into the retriever  *)
(* export directory (retriever.py 165-209, agent.py 315-323).  Every        *)
(* document the fetches read is stored.                                    *)
(*   retriever_dir  the retriever_ids of the exported agent, where each    *)
(*                  child fetch is, the files of config/retriever and the  *)
(*                  writes made, as [by |-> fetch, name |-> file name]     *)
(***************************************************************************)
MaxRetrievers == 2   \* retriever ids of the exported agent

\* Retriever documents create_new has stored: nothing makes a name unique.
RetrieverDocuments ==
    [ret1 |-> [type |-> "chroma_db", name |-> "kb1", external_data |-> <<"doc1">>,
               removal_words_file_id |-> ""],
     ret2 |-> [type |-> "chroma_db", name |-> "kb2", external_data |-> <<>>,
               removal_words_file_id |-> ""],
     ret3 |-> [type |-> "chroma_db", name |-> "kb1", external_data |-> <<"doc3">>,
               removal_words_file_id |-> ""],
     ret4 |-> [type |-> "bm25", name |-> "bm1", external_data |-> <<>>,
               removal_words_file_id |-> "file2"],
     ret5 |-> [type |-> "bm25", name |-> "bm2", external_data |-> <<>>,
               removal_words_file_id |-> ""]]

\* File records of the removal-word files, under the name they were uploaded with.
WordFiles == [file2 |-> [name |-> "stop.txt", bytes |-> <<"words2">>]]

\* The file one retriever fetch writes into export_dir, <<>> when it writes
\* none: the external documents of a Chroma retriever under
\* "<name>_external_data.json", the word file of a BM25 retriever under the
\* name of its file record.
SideFile(retriever) ==
    IF retriever.type = "bm25"
    THEN IF retriever.removal_words_file_id # ""
         THEN <<[name |-> <<WordFiles[retriever.removal_words_file_id].name>>,
                 content |-> WordFiles[retriever.removal_words_file_id].bytes]>>
         ELSE <<>>
    ELSE IF Len(retriever.external_data) > 0
         THEN <<[name |-> <<retriever.name, "_external_data.json">>,
                 content |-> retriever.external_data]>>
         ELSE <<>>

\* write_bytes / write_text: the file of that name now holds the content.
WriteFile(files, file) == {f \in files : f.name # file.name} \cup {file}

\* The directory and the log of writes after fetch i has written side.
Written(d, i, side) ==
    IF side = <<>> THEN [d EXCEPT !.pc[i] = "done"]
    ELSE [d EXCEPT !.pc[i] = "done",
                   !.files = WriteFile(@, side[1]),
                   !.written = @ \cup {[by |-> i, name |-> side[1].name]}]

RetrieverOf(d, i) == RetrieverDocuments[d.ids[i]]

RetrieverFilesFrame == UNCHANGED <<codecVars, exportVars, env_file, zip, mcp, collections, store, requests, upload>>

InitRetrieverFiles ==
    /\ clock = 0
    /\ issued = <<>>
    /\ last = <<>>
    /\ db = Entities
    /\ deletes = 0
    /\ agent = FullAgent
    /\ fs = [workdir |-> FALSE, files |-> {}, archive |-> <<>>]
    /\ tasks = NoTasks
    /\ call = IdleCall
    /\ calls = NoCalls
    /\ \E n \in 1..MaxRetrievers : \E ids \in [1..n -> DOMAIN RetrieverDocuments] :
           retriever_dir = [ids |-> ids, pc |-> [i \in 1..n |-> "model"],
                            files |-> {}, written |-> {}]
    /\ env_file = <<>>
    /\ zip = <<>>
    /\ mcp = <<>>
    /\ collections = <<>>
    /\ store = <<>>
    /\ requests = <<>>
    /\ upload = <<>>

\* retriever.py 166: get_model_by_id of fetch i has answered.
RetrieverModelFetched(i) ==
    /\ retriever_dir.pc[i] = "model"
    /\ retriever_dir' = [retriever_dir EXCEPT !.pc[i] = "embeddings"]
    /\ RetrieverFilesFrame

\* retriever.py 192-209: the embeddings configuration of a Chroma retriever
\* has answered; the fetch dumps the external documents and returns.
ChromaConfigured(i) ==
    /\ retriever_dir.pc[i] = "embeddings"
    /\ RetrieverOf(retriever_dir, i).type = "chroma_db"
    /\ retriever_dir' = Written(retriever_dir, i, SideFile(RetrieverOf(retriever_dir, i)))
    /\ RetrieverFilesFrame

\* retriever.py 176-183: the embeddings configuration of a BM25 retriever has
\* answered; with a word file the fetch awaits its record, else it returns.
Bm25Configured(i) ==
    /\ retriever_dir.pc[i] = "embeddings"
    /\ RetrieverOf(retriever_dir, i).type = "bm25"
    /\ retriever_dir' =
           IF RetrieverOf(retriever_dir, i).removal_words_file_id # ""
           THEN [retriever_dir EXCEPT !.pc[i] = "file"]
           ELSE [retriever_dir EXCEPT !.pc[i] = "done"]
    /\ RetrieverFilesFrame

\* retriever.py 183-190: the file record has answered; the fetch copies the
\* word file into export_dir and returns.
RemovalWordsCopied(i) ==
    /\ retriever_dir.pc[i] = "file"
    /\ retriever_dir' = Written(retriever_dir, i, SideFile(RetrieverOf(retriever_dir, i)))
    /\ RetrieverFilesFrame

NextRetrieverFiles ==
    \E i \in DOMAIN retriever_dir.pc :
        \/ RetrieverModelFetched(i)
        \/ ChromaConfigured(i)
        \/ Bm25Configured(i)
        \/ RemovalWordsCopied(i)

SpecRetrieverFiles == InitRetrieverFiles /\ [][NextRetrieverFiles]_vars

\* C21: no two child fetches of one export write the same file path, so
\* that the content of every side file is the content its one writer gave
\* it, whatever the order the sibling fetches ran in: every fetch of the
\* export that writes a path writes the content the path holds.
SideFilesOrderIndependent ==
    \A f \in retriever_dir.files : \A w \in retriever_dir.written :
        w.name = f.name => SideFile(RetrieverOf(retriever_dir, w.by))[1].content = f.content

(***************************************************************************)
(* The .env stub of an export (agent.py 153-170).                          *)
(*   env_file  the credential variable names of the composite that is      *)
(*             exported (of its chat model, of the embeddings model of     *)
(*             each retriever, of each tool) and the text written, <<>>    *)
(*             before the write, else <<the text>>; a text is the sequence *)
(*             of its names, "=" and "\n"                                  *)
(***************************************************************************)
MaxTools == 1        \* tools of the exported composite

\* Values of the enumeration AgentEnvVar.
AgentEnvVar ==
    {"POSTGRES_HOST", "POSTGRES_PORT", "POSTGRES_DATABASE", "POSTGRES_USER",
     "POSTGRES_PASSWORD"}

\* What get_api_key_env() returns: the name of a variable, or None.
None == "None"
ApiKeyEnvs == {"GOOGLE_API_KEY", "HF_TOKEN", None}

SeqsUpTo(S, n) == UNION {[1..k -> S] : k \in 0..n}

\* The names added to env_set, lines 155-168.
EnvSet(e) == AgentEnvVar \cup {e.llm} \cup Range(e.retrievers) \cup Range(e.tools)

\* filter(lambda value: value is not None, env_set)
NotNone(S) == S \ {None}

\* The orders in which iterating a set can yield its members.
RECURSIVE Orders(_)
Orders(S) ==
    IF S = {} THEN {<<>>}
    ELSE UNION {{<<x>> \o rest : rest \in Orders(S \ {x})} : x \in S}

\* "=\n".join(names): "=" and "\n" between two names, nothing after the last.
JoinNames(names) ==
    [k \in 1..(3 * Len(names) - 2) |->
        IF k % 3 = 1 THEN names[(k + 2) \div 3]
        ELSE IF k % 3 = 2 THEN "=" ELSE "\n"]

\* The lines of a text: where each starts, and the line that starts there.
LineStarts(text) == {1} \cup {k + 1 : k \in {j \in DOMAIN text : text[j] = "\n"}}
LineEnd(text, s) == Min({k \in DOMAIN text : k >= s /\ text[k] = "\n"} \cup {Len(text) + 1}) - 1
Line(text, s) == SubSeq(text, s, LineEnd(text, s))
Lines(text) == {Line(text, s) : s \in LineStarts(text)}

\* The distinct credential variables the exported agent needs.
RequiredEnvs(e) == NotNone({e.llm} \cup Range(e.retrievers) \cup Range(e.tools))

InitEnvFile ==
    /\ clock = 0
    /\ issued = <<>>
    /\ last = <<>>
    /\ db = Entities
    /\ deletes = 0
    /\ agent = FullAgent
    /\ fs = [workdir |-> FALSE, files |-> {}, archive |-> <<>>]
    /\ tasks = NoTasks
    /\ call = IdleCall
    /\ calls = NoCalls
    /\ \E llm \in ApiKeyEnvs :
       \E retrievers \in SeqsUpTo(ApiKeyEnvs, MaxRetrievers) :
       \E tools \in SeqsUpTo(ApiKeyEnvs, MaxTools) :
           env_file = [llm |-> llm, retrievers |-> retrievers, tools |-> tools,
                       text |-> <<>>]
    /\ retriever_dir = <<>>
    /\ zip = <<>>
    /\ mcp = <<>>
    /\ collections = <<>>
    /\ store = <<>>
    /\ requests = <<>>
    /\ upload = <<>>

\* _write_env_file, lines 153-170.
WriteEnvFile ==
    /\ env_file.text = <<>>
    /\ \E names \in Orders(NotNone(EnvSet(env_file))) :
           env_file' = [env_file EXCEPT !.text = <<JoinNames(names)>>]
    /\ UNCHANGED <<codecVars, exportVars, retriever_dir, zip, mcp, collections, store, requests, upload>>

NextEnvFile == WriteEnvFile

SpecEnvFile == InitEnvFile /\ [][NextEnvFile]_vars

\* C22: the .env stub holds exactly the distinct variable names the exported
\* agent requires (of the chat model, of each retriever's embeddings model,
\* of each tool): one line per name, each name once, each line the name
\* with a blank value, and no other name.
EnvFileListsRequiredNames ==
    env_file.text # <<>> =>
        /\ Lines(env_file.text[1]) = {<<name, "=">> : name \in RequiredEnvs(env_file)}
        /\ Cardinality(LineStarts(env_file.text[1])) = Cardinality(RequiredEnvs(env_file))

(***************************************************************************)
(* zip_folder (util/function.py 53-63).  A path is the sequence of its     *)
(* names; a directory tree is the set of its nodes <<path, kind>>, kind    *)
(* "file" or "dir", every node but a top one lying in a "dir" node.  The   *)
(* output file lies outside the folder, as the export's does.              *)
(*   zip  the tree, the folder to archive (the top, or a directory of the  *)
(*        tree) and the archive, <<>> before the call, else <<the names    *)
(*        of its entries>>                                                 *)
(***************************************************************************)
MaxDepth == 2        \* directory levels below the top of the tree

FileNames == {".env", "config"}

\* The trees of at most depth levels, and what one name can be in the top
\* directory of such a tree: absent, a file, or a directory holding a tree of
\* one level less.
RECURSIVE Trees(_)
Below(name, tree) == {<<<<name>> \o node[1], node[2]>> : node \in tree}
NameOptions(name, depth) ==
    {{}, {<<<<name>>, "file">>}}
    \cup {{<<<<name>>, "dir">>} \cup Below(name, tree) : tree \in Trees(depth - 1)}
Trees(depth) ==
    IF depth = 0 THEN {{}}
    ELSE {first \cup second : first \in NameOptions(".env", depth),
                              second \in NameOptions("config", depth)}

Directories(tree) == {<<>>} \cup {node[1] : node \in {n \in tree : n[2] = "dir"}}

\* Every path of at most MaxDepth names.
RelativePaths == SeqsUpTo(FileNames, MaxDepth) \ {<<>>}

\* folder.rglob('*'): every path of the tree below folder, files and
\* directories alike.
IsBelow(path, folder) ==
    /\ Len(path) > Len(folder)
    /\ SubSeq(path, 1, Len(folder)) = folder
rglob(tree, folder) == {node[1] : node \in {n \in tree : IsBelow(n[1], folder)}}

\* A test that takes a directory for a file too.
is_any(tree, path) == TRUE
\* file_path.is_file()
is_file(tree, path) == <<path, "file">> \in tree

\* file_path.relative_to(folder)
relative_to(path, folder) == SubSeq(path, Len(folder) + 1, Len(path))

\* The names of the entries zip_folder writes, lines 60-63.
zip_folder(tree, folder) ==
    {relative_to(path, folder) : path \in {q \in rglob(tree, folder) : is_file(tree, q)}}

InitZip ==
    /\ clock = 0
    /\ issued = <<>>
    /\ last = <<>>
    /\ db = Entities
    /\ deletes = 0
    /\ agent = FullAgent
    /\ fs = [workdir |-> FALSE, files |-> {}, archive |-> <<>>]
    /\ tasks = NoTasks
    /\ call = IdleCall
    /\ calls = NoCalls
    /\ \E tree \in Trees(MaxDepth) : \E folder \in Directories(tree) :
           zip = [tree |-> tree, folder |-> folder, archive |-> <<>>]
    /\ retriever_dir = <<>>
    /\ env_file = <<>>
    /\ mcp = <<>>
    /\ collections = <<>>
    /\ store = <<>>
    /\ requests = <<>>
    /\ upload = <<>>

ZipFolder ==
    /\ zip.archive = <<>>
    /\ zip' = [zip EXCEPT !.archive = <<zip_folder(zip.tree, zip.folder)>>]
    /\ UNCHANGED <<codecVars, exportVars, retriever_dir, env_file, mcp, collections, store, requests, upload>>

NextZip == ZipFolder

SpecZip == InitZip /\ [][NextZip]_vars

\* C23: the entries of the archive zip_folder writes are the relative paths
\* of the regular files found recursively under the folder: every regular
\* file has an entry under its relative path, and nothing else has one
\* (no directory, empty or not).
ArchiveEntriesAreRegularFiles ==
    zip.archive # <<>> =>
        /\ zip.archive[1] \subseteq RelativePaths
        /\ \A path \in RelativePaths :
               path \in zip.archive[1] <=> <<zip.folder \o path, "file">> \in zip.tree

\* An archive was written of a folder that is not the top of the tree and
\* holds a regular file, and of a tree that holds an empty directory.
ZippedNestedFolderWithEmptyDirectory ==
    /\ zip.archive # <<>>
    /\ zip.archive[1] # {}
    /\ zip.folder # <<>>
    /\ \E node \in zip.tree :
           /\ node[2] = "dir"
           /\ rglob(zip.tree, node[1]) = {}

(***************************************************************************)
(* get_mcp_configuration (agent.py 329-341) for an agent whose MCP servers *)
(* are all stored; nothing makes the name of a server unique.              *)
(*   mcp  the mcp_server_ids of the agent, the result of the metadata task *)
(*        and of the configuration task of each (<<>> while the task       *)
(*        runs) and the connections returned, <<>> before the return,      *)
(*        else <<the map>>                                                 *)
(***************************************************************************)
MaxServers == 2      \* MCP server ids of the exported agent

\* servers.setdefault(name, config): an entry already there is kept.
SetDefault(servers, name, config) ==
    [n \in DOMAIN servers \cup {name} |-> IF n \in DOMAIN servers THEN servers[n] ELSE config]
\* servers[name] = config
SetItem(servers, name, config) ==
    [n \in DOMAIN servers \cup {name} |-> IF n = name THEN config ELSE servers[n]]

\* Lines 336-340: the dictionary after the first k pairs of tasks.
RECURSIVE ServersAfter(_, _, _)
ServersAfter(metadata, config, k) ==
    IF k = 0 THEN <<>>
    ELSE SetItem(ServersAfter(metadata, config, k - 1), metadata[k][1].name, config[k][1])

InitMcp ==
    /\ clock = 0
    /\ issued = <<>>
    /\ last = <<>>
    /\ db = Entities
    /\ deletes = 0
    /\ agent = FullAgent
    /\ fs = [workdir |-> FALSE, files |-> {}, archive |-> <<>>]
    /\ tasks = NoTasks
    /\ call = IdleCall
    /\ calls = NoCalls
    /\ \E n \in 1..MaxServers : \E ids \in [1..n -> DOMAIN McpServers] :
           mcp = [ids |-> ids, metadata |-> [i \in 1..n |-> <<>>],
                  config |-> [i \in 1..n |-> <<>>], connections |-> <<>>]
    /\ retriever_dir = <<>>
    /\ env_file = <<>>
    /\ zip = <<>>
    /\ collections = <<>>
    /\ store = <<>>
    /\ requests = <<>>
    /\ upload = <<>>

McpFrame == UNCHANGED <<codecVars, exportVars, retriever_dir, env_file, zip, collections, store, requests, upload>>

\* Line 333: get_model_by_id of server i has answered.
McpMetadataFetched(i) ==
    /\ mcp.metadata[i] = <<>>
    /\ mcp' = [mcp EXCEPT !.metadata[i] = <<McpServers[mcp.ids[i]]>>]
    /\ McpFrame

\* Line 334: get_configuration_by_id of server i has answered.  A resolved
\* configuration is written as the identifier of its document.
McpConfigFetched(i) ==
    /\ mcp.config[i] = <<>>
    /\ mcp' = [mcp EXCEPT !.config[i] = <<mcp.ids[i]>>]
    /\ McpFrame

\* Lines 336-341, once the inner TaskGroup has ended.
McpConnectionsBuilt ==
    /\ mcp.connections = <<>>
    /\ \A i \in DOMAIN mcp.ids : mcp.metadata[i] # <<>> /\ mcp.config[i] # <<>>
    /\ mcp' = [mcp EXCEPT !.connections =
                   <<ServersAfter(mcp.metadata, mcp.config, Len(mcp.ids))>>]
    /\ McpFrame

NextMcp ==
    \/ \E i \in DOMAIN mcp.ids : McpMetadataFetched(i)
    \/ \E i \in DOMAIN mcp.ids : McpConfigFetched(i)
    \/ McpConnectionsBuilt

SpecMcp == InitMcp /\ [][NextMcp]_vars

\* C24: when MCP server ids of one agent resolve to servers of the same
\* name, the map is built without an error and holds one entry per distinct
\* server name, whose value is the configuration of the last id of that
\* name in mcp_server_ids.
LaterServerWins ==
    mcp.connections # <<>> =>
        /\ DOMAIN mcp.connections[1] = {McpServers[mcp.ids[i]].name : i \in DOMAIN mcp.ids}
        /\ \A j \in DOMAIN mcp.ids :
               (\A k \in DOMAIN mcp.ids : k > j => McpServers[mcp.ids[k]].name # McpServers[mcp.ids[j]].name)
                   => mcp.connections[1][McpServers[mcp.ids[j]].name] = mcp.ids[j]

\* The map was built for two different servers of one name.
SameNameServersMapped ==
    /\ mcp.connections # <<>>
    /\ \E i, j \in DOMAIN mcp.ids :
           /\ i < j
           /\ mcp.ids[i] # mcp.ids[j]
           /\ McpServers[mcp.ids[i]].name = McpServers[mcp.ids[j]].name

(***************************************************************************)
(* The delete endpoint of the MCP configurations (route/mcp.py 114-119)    *)
(* over the collections of the database (database.py 18-27, 112-128).  A   *)
(* document is written as its _id; a value is written with its type, an    *)
(* ObjectId being no string to the database.                               *)
(*   collections  the documents of each collection and the last request    *)
(*                served: <<>>, or <<its model_id, the error it raised,    *)
(*                the documents before it>>                                *)
(***************************************************************************)
MongoCollection ==
    {"chat_model", "prompt", "recognizer", "retriever", "embeddings", "mcp_server",
     "agent", "file", "tool"}

\* The hexadecimal texts of the identifiers in use.
ObjectIdTexts == {"a1", "b2"}

ObjectId(text) == [type |-> "ObjectId", value |-> text]
Str(text) == [type |-> "str", value |-> text]

\* The _id insert_one gives a document is an ObjectId.
ObjectIds == {ObjectId(text) : text \in ObjectIdTexts}

\* delete_one({"_id": entity_id}): the documents left, and deleted_count > 0.
delete_one(documents, entity_id) == documents \ {entity_id}
DeletedSome(documents, entity_id) == entity_id \in documents

\* delete_by_id, lines 124-128: the documents afterwards and the error raised.
delete_by_id(docs, entity_id, collection) ==
    [docs |-> [docs EXCEPT ![collection] = delete_one(@, entity_id)],
     error |-> IF DeletedSome(docs[collection], entity_id) THEN "" ELSE "NotFoundError"]

\* delete_mcp_configuration, lines 118-119: the path parameter is passed on
\* as received, a string, together with MongoCollection.EMBEDDINGS.
delete_mcp_configuration(docs, model_id) == delete_by_id(docs, Str(model_id), "embeddings")

Served(result, model_id, before) ==
    [docs |-> result.docs,
     last |-> <<[model_id |-> model_id, error |-> result.error, before |-> before]>>]

InitCollections ==
    /\ clock = 0
    /\ issued = <<>>
    /\ last = <<>>
    /\ db = Entities
    /\ deletes = 0
    /\ agent = FullAgent
    /\ fs = [workdir |-> FALSE, files |-> {}, archive |-> <<>>]
    /\ tasks = NoTasks
    /\ call = IdleCall
    /\ calls = NoCalls
    /\ \E servers \in SUBSET ObjectIds : \E embeddings \in SUBSET ObjectIds :
       \E agents \in SUBSET ObjectIds :
           collections =
               [docs |-> [c \in MongoCollection |->
                             IF c = "mcp_server" THEN servers
                             ELSE IF c = "embeddings" THEN embeddings
                             ELSE IF c = "agent" THEN agents
                             ELSE ObjectIds],
                last |-> <<>>]
    /\ retriever_dir = <<>>
    /\ env_file = <<>>
    /\ zip = <<>>
    /\ mcp = <<>>
    /\ store = <<>>
    /\ requests = <<>>
    /\ upload = <<>>

\* DELETE /api/v1/mcp/{model_id}
DeleteMcpConfiguration ==
    /\ \E model_id \in ObjectIdTexts :
           collections' = Served(delete_mcp_configuration(collections.docs, model_id),
                                 model_id, collections.docs)
    /\ UNCHANGED <<codecVars, exportVars, retriever_dir, env_file, zip, mcp, store, requests, upload>>

NextCollections == DeleteMcpConfiguration

SpecCollections == InitCollections /\ [][NextCollections]_vars

\* C25: the MCP delete endpoint removes the MCP configuration stored under
\* the id it is given and leaves the documents of every other collection
\* as they were.
McpDeleteRemovesOnlyMcp ==
    (/\ collections.last # <<>>
     /\ ObjectId(collections.last[1].model_id) \in collections.last[1].before["mcp_server"])
        => /\ ObjectId(collections.last[1].model_id) \notin collections.docs["mcp_server"]
           /\ \A c \in MongoCollection \ {"mcp_server"} :
                  collections.docs[c] = collections.last[1].before[c]

(***************************************************************************)
(* Agent create and update (agent.py 233-243, 276-290) running next to the *)
(* recognizer delete (recognizer.py 258-277, file.py 94-99) and to the     *)
(* deletes of the other services.  A handler runs from one database answer *)
(* to the next; a database call takes effect when it is answered.          *)
(*   store     docs: the identifiers of the stored recognizer, chat model, *)
(*             prompt, retriever, MCP server and file documents; agents:   *)
(*             for each agent identifier <<>> or <<the stored document>>;  *)
(*             deletes: deletes served by the other services               *)
(*   requests  write: the agent create or update in progress; delete: the  *)
(*             recognizer delete in progress                               *)
(***************************************************************************)
MaxWrites == 2             \* agent create and update requests
MaxRecognizerDeletes == 1  \* recognizer delete requests
MaxEntityDeletes == 1      \* deletes served by the other services

AgentIds == {"agent1", "agent2"}

\* Request bodies of create and update: mcp_server_ids is optional.
AgentBodies ==
    {[image_recognizer_id |-> "rec1", llm_id |-> "llm1", prompt_id |-> "prompt1",
      retriever_ids |-> <<"ret1">>, mcp_server_ids |-> servers] :
        servers \in {<<>>, <<"mcp1">>}}

\* What the other services' delete_model_by_id can remove.
OtherEntities == {"llm1", "prompt1", "ret1", "mcp1"}

\* The tasks _check_entities_exists creates, lines 279-287.
CheckedReferences(model) ==
    {model.image_recognizer_id, model.llm_id, model.prompt_id}
        \cup Range(model.retriever_ids) \cup Range(model.mcp_server_ids)

NoAgents == [id \in AgentIds |-> <<>>]

IdleWrite ==
    [pc |-> "idle", count |-> 0, kind |-> "", id |-> "", body |-> <<>>, tasks |-> <<>>,
     missing |-> {}, error |-> "", before |-> NoAgents]

IdleDelete ==
    [pc |-> "idle", count |-> 0, model_id |-> "", file |-> "none", rec |-> "none",
     error |-> ""]

\* A get_model_by_id that finds every document.
CheckPassed(docs, reference) == "done"
\* get_by_id, database.py 64-68: the task returns the document or raises.
CheckResult(docs, reference) == IF reference \in docs THEN "done" ELSE "failed"

\* The tasks of the group after the task of reference has ended with result:
\* a failure makes the TaskGroup cancel the tasks that have not ended.
CheckNoted(group, reference, result) ==
    [r \in DOMAIN group |->
        IF r = reference THEN result
        ELSE IF result = "failed" /\ group[r] = "fetch" THEN "cancelled"
        ELSE group[r]]

\* An identifier insert_one can give the new document.
UnusedAgentIds(agents) == {id \in AgentIds : agents[id] = <<>>}

\* update_one with $set: modified_count is 1 when the document is stored and
\* the update changes it.
Modifies(agents, id, model) == agents[id] # <<>> /\ agents[id] # <<model>>

\* find_one({"image_recognizer_id": model_id}) on the agent collection.
AgentUsing(agents, model_id) ==
    {id \in AgentIds : agents[id] # <<>> /\ agents[id][1].image_recognizer_id = model_id}

\* The other task of the recognizer delete's TaskGroup once a task has
\* failed: cancelled unless it has ended.
Sibling(status) == IF status \in {"get", "delete"} THEN "cancelled" ELSE status

InitData ==
    /\ clock = 0
    /\ issued = <<>>
    /\ last = <<>>
    /\ db = Entities
    /\ deletes = 0
    /\ agent = FullAgent
    /\ fs = [workdir |-> FALSE, files |-> {}, archive |-> <<>>]
    /\ tasks = NoTasks
    /\ call = IdleCall
    /\ calls = NoCalls
    /\ \E files \in SUBSET {Recognizers["rec1"].model_file_id} :
           store = [docs |-> {"rec1"} \cup OtherEntities \cup files,
                    agents |-> NoAgents, deletes |-> 0]
    /\ requests = [write |-> IdleWrite, delete |-> IdleDelete]
    /\ retriever_dir = <<>>
    /\ env_file = <<>>
    /\ zip = <<>>
    /\ mcp = <<>>
    /\ collections = <<>>
    /\ upload = <<>>

DataFrame ==
    UNCHANGED <<codecVars, exportVars, retriever_dir, env_file, zip, mcp, collections, upload>>

\* delete_model_by_id of the chat model, prompt, retriever or MCP service.
DeleteEntity ==
    /\ store.deletes < MaxEntityDeletes
    /\ \E e \in OtherEntities \cap store.docs :
           store' = [store EXCEPT !.docs = @ \ {e}, !.deletes = @ + 1]
    /\ UNCHANGED requests
    /\ DataFrame

\* create_new or update_model_by_id up to the TaskGroup of
\* _check_entities_exists, lines 234-235, 239-241 and 278-287.
StartWrite ==
    /\ requests.write.pc \in {"idle", "returned", "raised"}
    /\ requests.write.count < MaxWrites
    /\ \E body \in AgentBodies : \E target \in AgentIds \cup {""} :
           requests' = [requests EXCEPT !.write =
               [pc |-> "check", count |-> requests.write.count + 1,
                kind |-> IF target = "" THEN "create" ELSE "update",
                id |-> target, body |-> <<body>>,
                tasks |-> [r \in CheckedReferences(body) |-> "fetch"],
                missing |-> {}, error |-> "", before |-> store.agents]]
    /\ UNCHANGED store
    /\ DataFrame

\* The database answers the get_model_by_id of one task of the group.
CheckAnswered ==
    /\ requests.write.pc = "check"
    /\ \E r \in {x \in DOMAIN requests.write.tasks : requests.write.tasks[x] = "fetch"} :
           requests' = [requests EXCEPT
               !.write.tasks = CheckNoted(@, r, CheckResult(store.docs, r)),
               !.write.missing = @ \cup ({r} \ store.docs)]
    /\ UNCHANGED store
    /\ DataFrame

\* Lines 288-290: the group has ended with a failure.
RaiseNotFound ==
    /\ requests.write.pc = "check"
    /\ "fetch" \notin Range(requests.write.tasks)
    /\ "failed" \in Range(requests.write.tasks)
    /\ requests' = [requests EXCEPT !.write.pc = "raised", !.write.error = "NotFoundError"]
    /\ UNCHANGED store
    /\ DataFrame

\* Line 236: the group has ended without a failure and the database answers
\* create_document.
CreateAnswered ==
    /\ requests.write.pc = "check"
    /\ requests.write.kind = "create"
    /\ Range(requests.write.tasks) = {"done"}
    /\ UnusedAgentIds(store.agents) # {}
    /\ store' = [store EXCEPT
           !.agents[CHOOSE id \in UnusedAgentIds(store.agents) : TRUE] = requests.write.body]
    /\ requests' = [requests EXCEPT !.write.pc = "returned"]
    /\ DataFrame

\* Lines 242-243 and database.py 102-109: the group has ended without a
\* failure and the database answers update_by_id.
UpdateAnswered ==
    /\ requests.write.pc = "check"
    /\ requests.write.kind = "update"
    /\ Range(requests.write.tasks) = {"done"}
    /\ IF Modifies(store.agents, requests.write.id, requests.write.body[1])
       THEN /\ store' = [store EXCEPT !.agents[requests.write.id] = requests.write.body]
            /\ requests' = [requests EXCEPT !.write.pc = "returned"]
       ELSE /\ requests' = [requests EXCEPT !.write.pc = "raised",
                                            !.write.error = "NotFoundError"]
            /\ UNCHANGED store
    /\ DataFrame

\* recognizer.py 259-260: delete_model_by_id awaits get_by_id.
StartRecognizerDelete ==
    /\ requests.delete.pc \in {"idle", "returned", "raised"}
    /\ requests.delete.count < MaxRecognizerDeletes
    /\ requests' = [requests EXCEPT !.delete =
           [pc |-> "get", count |-> requests.delete.count + 1, model_id |-> "rec1",
            file |-> "none", rec |-> "none", error |-> ""]]
    /\ UNCHANGED store
    /\ DataFrame

\* Lines 260-266: get_by_id answers; the handler awaits the agent lookup.
RecognizerGetAnswered ==
    /\ requests.delete.pc = "get"
    /\ requests' =
           IF requests.delete.model_id \in store.docs
           THEN [requests EXCEPT !.delete.pc = "find"]
           ELSE [requests EXCEPT !.delete.pc = "raised", !.delete.error = "NotFoundError"]
    /\ UNCHANGED store
    /\ DataFrame

\* Lines 266-274: the agent lookup answers; with no agent found the handler
\* starts the two tasks, which await get_file_by_id and delete_one.
AgentUsingAnswered ==
    /\ requests.delete.pc = "find"
    /\ requests' =
           IF AgentUsing(store.agents, requests.delete.model_id) # {}
           THEN [requests EXCEPT !.delete.pc = "raised",
                                 !.delete.error = "NotAcceptableError"]
           ELSE [requests EXCEPT !.delete.pc = "group", !.delete.file = "get",
                                 !.delete.rec = "delete"]
    /\ UNCHANGED store
    /\ DataFrame

\* file.py 96-99: get_file_by_id answers the first task; with a record
\* the task unlinks the file and awaits delete_by_id.
FileGetAnswered ==
    /\ requests.delete.pc = "group"
    /\ requests.delete.file = "get"
    /\ requests' =
           IF Recognizers[requests.delete.model_id].model_file_id \in store.docs
           THEN [requests EXCEPT !.delete.file = "delete"]
           ELSE [requests EXCEPT !.delete.file = "failed", !.delete.rec = Sibling(@)]
    /\ UNCHANGED store
    /\ DataFrame

\* file.py 99: delete_by_id of the file record answers the first task.
FileDeleteAnswered ==
    /\ requests.delete.pc = "group"
    /\ requests.delete.file = "delete"
    /\ IF Recognizers[requests.delete.model_id].model_file_id \in store.docs
       THEN /\ store' = [store EXCEPT
                   !.docs = @ \ {Recognizers[requests.delete.model_id].model_file_id}]
            /\ requests' = [requests EXCEPT !.delete.file = "done"]
       ELSE /\ requests' = [requests EXCEPT !.delete.file = "failed",
                                            !.delete.rec = Sibling(@)]
            /\ UNCHANGED store
    /\ DataFrame

\* recognizer.py 274: delete_by_id of the recognizer answers the second task.
RecognizerDeleteAnswered ==
    /\ requests.delete.pc = "group"
    /\ requests.delete.rec = "delete"
    /\ IF requests.delete.model_id \in store.docs
       THEN /\ store' = [store EXCEPT !.docs = @ \ {requests.delete.model_id}]
            /\ requests' = [requests EXCEPT !.delete.rec = "done"]
       ELSE /\ requests' = [requests EXCEPT !.delete.rec = "failed",
                                            !.delete.file = Sibling(@)]
            /\ UNCHANGED store
    /\ DataFrame

\* Lines 272-277: both tasks have ended; an ExceptionGroup is logged and the
\* handler returns.
RecognizerDeleteReturns ==
    /\ requests.delete.pc = "group"
    /\ {requests.delete.file, requests.delete.rec} \cap {"get", "delete"} = {}
    /\ requests' = [requests EXCEPT !.delete.pc = "returned"]
    /\ UNCHANGED store
    /\ DataFrame

NextData ==
    \/ DeleteEntity
    \/ StartWrite
    \/ CheckAnswered
    \/ RaiseNotFound
    \/ CreateAnswered
    \/ UpdateAnswered
    \/ StartRecognizerDelete
    \/ RecognizerGetAnswered
    \/ AgentUsingAnswered
    \/ FileGetAnswered
    \/ FileDeleteAnswered
    \/ RecognizerDeleteAnswered
    \/ RecognizerDeleteReturns

SpecData == InitData /\ [][NextData]_vars

\* C26: delete_model_by_id on a recognizer either removes the recognizer
\* record or raises an error; it never returns normally while the
\* recognizer is still stored, also when the deletion of the model file
\* fails.
RecognizerDeleteRemovesOrRaises ==
    requests.delete.pc = "returned" => requests.delete.model_id \notin store.docs

\* C27: create_new and update_model_by_id write to the agent collection
\* only when the recognizer, the chat model, the prompt, every retriever and
\* every MCP server named in the request exist (each was stored when the
\* request looked it up); otherwise they raise a single NotFoundError and
\* leave the agent collection unchanged.
AgentWrittenOnlyWhenAllExist ==
    /\ store.agents # requests.write.before =>
           /\ requests.write.missing = {}
           /\ Range(requests.write.tasks) = {"done"}
    /\ (requests.write.pc = "raised" /\ requests.write.missing # {}) =>
           /\ requests.write.error = "NotFoundError"
           /\ store.agents = requests.write.before

\* A request has stored an agent, and the next request was refused because
\* an entity it names had been deleted.
WriteRefusedAfterWrite ==
    /\ requests.write.pc = "raised"
    /\ requests.write.missing # {}
    /\ requests.write.count = 2
    /\ store.agents # NoAgents

\* C28: under any interleaving of agent create, agent update and recognizer
\* delete, the image_recognizer_id of every stored agent names a stored
\* recognizer.
RecognizerReferencesIntact ==
    \A id \in AgentIds :
        store.agents[id] # <<>> => store.agents[id][1].image_recognizer_id \in store.docs

(***************************************************************************)
(* Uploads: save_file of the file service (and the route upload_file,      *)
(* which does the same without making the directory).  The upload is read  *)
(* and the file record is inserted by two tasks of one TaskGroup; the      *)
(* bytes are written to the local directory after the group has ended.     *)
(*   upload   the file records stored, the paths of the local directory    *)
(*            at which bytes have been written, and the current call:      *)
(*            where it is, the path it made, its two tasks, its error      *)
(***************************************************************************)
MaxUploads == 2     \* save_file calls made, one after another

\* Values of uuid4(), the file name under the local directory.
Uuids == {"u1", "u2", "u3"}

\* No upload has been made.
NoUpload ==
    [records |-> {}, disk |-> {}, pc |-> "idle", count |-> 0, path |-> "",
     read |-> "none", record |-> "none", error |-> ""]

\* What a task that has not ended becomes when its sibling has failed.
CancelledTask(status) == IF status = "run" THEN "cancelled" ELSE status

\* What is stored after insert_one(record) has ended with result: the record
\* is stored once the call has been answered.
Inserted(records, path, result) == IF result = "done" THEN records \cup {path} ELSE records

UploadFrame ==
    UNCHANGED <<codecVars, exportVars, retriever_dir, env_file, zip, mcp, collections,
                store, requests>>

InitSaveFile ==
    /\ clock = 0
    /\ issued = <<>>
    /\ last = <<>>
    /\ db = Entities
    /\ deletes = 0
    /\ agent = FullAgent
    /\ fs = [workdir |-> FALSE, files |-> {}, archive |-> <<>>]
    /\ tasks = NoTasks
    /\ call = IdleCall
    /\ calls = NoCalls
    /\ retriever_dir = <<>>
    /\ env_file = <<>>
    /\ zip = <<>>
    /\ mcp = <<>>
    /\ collections = <<>>
    /\ store = <<>>
    /\ requests = <<>>
    /\ upload = NoUpload

\* Lines 84-89: the path is made from a new uuid4, the record is built and
\* the two tasks are created.
StartSaveFile ==
    /\ upload.pc \in {"idle", "returned", "raised"}
    /\ upload.count < MaxUploads
    /\ \E u \in Uuids \ (upload.records \cup upload.disk \cup {upload.path}) :
          upload' = [upload EXCEPT !.pc = "group", !.count = @ + 1, !.path = u,
                                   !.read = "run", !.record = "run", !.error = ""]
    /\ UploadFrame

\* file.read() ends: it returns the bytes of the upload, or raises.
UploadRead ==
    /\ upload.pc = "group"
    /\ upload.read = "run"
    /\ \E result \in {"done", "failed"} : upload' = [upload EXCEPT !.read = result]
    /\ UploadFrame

\* create_document ends: insert_one has stored the record and returned its
\* id, or has raised and stored nothing.
RecordInserted ==
    /\ upload.pc = "group"
    /\ upload.record = "run"
    /\ \E result \in {"done", "failed"} :
          upload' = [upload EXCEPT !.record = result,
                                   !.records = Inserted(@, upload.path, result)]
    /\ UploadFrame

\* A task of the group has failed: the group cancels the task that has not
\* ended.  A cancelled insert_one has either not reached the database or
\* has been carried out by it without the client waiting for the answer.
CancelUploadTasks ==
    /\ upload.pc = "group"
    /\ "failed" \in {upload.read, upload.record}
    /\ "run" \in {upload.read, upload.record}
    /\ \E result \in {"done", "cancelled"} :
          upload' = [upload EXCEPT !.read = CancelledTask(@),
                                   !.record = CancelledTask(@),
                                   !.records = IF upload.record = "run"
                                               THEN Inserted(@, upload.path, result) ELSE @]
    /\ UploadFrame

\* Line 89: the group ends after both tasks have ended, and raises the
\* failures as an ExceptionGroup.
UploadGroupRaises ==
    /\ upload.pc = "group"
    /\ "run" \notin {upload.read, upload.record}
    /\ "failed" \in {upload.read, upload.record}
    /\ upload' = [upload EXCEPT !.pc = "raised", !.error = "ExceptionGroup"]
    /\ UploadFrame

\* Lines 90-92: both tasks have succeeded; the directory is made and the
\* bytes are written, and the id of the record is returned -- or mkdir or
\* write_bytes raises OSError and no file holds the bytes.
WriteBytes ==
    /\ upload.pc = "group"
    /\ upload.read = "done"
    /\ upload.record = "done"
    /\ \/ upload' = [upload EXCEPT !.pc = "returned", !.disk = @ \cup {upload.path}]
       \/ upload' = [upload EXCEPT !.pc = "raised", !.error = "OSError"]
    /\ UploadFrame

NextSaveFile ==
    \/ StartSaveFile
    \/ UploadRead
    \/ RecordInserted
    \/ CancelUploadTasks
    \/ UploadGroupRaises
    \/ WriteBytes

SpecSaveFile == InitSaveFile /\ [][NextSaveFile]_vars

\* C30: after any save_file call, returned or raised, a file record is
\* stored only if the bytes of the file were written to the local directory
\* under the path the record holds: a failed read of the upload or a failed
\* write leaves no record behind.
RecordOnlyIfBytesWritten ==
    upload.pc \in {"returned", "raised"} => upload.records \subseteq upload.disk

====
